---- MODULE Spec2Model ----
(***************************************************************************)
(* A model of esmvaltool/diag_scripts/shared/_base.py: the provenance      *)
(* logger, the metadata selection / grouping / sorting helpers and the     *)
(* output directory set-up of run_diagnostic; and of the data loaders of   *)
(* the LMU_ESACCI albedo and land cover diagnostics.                       *)
(*                                                                         *)
(* Python strings are sequences of character codes (ASCII), so that        *)
(* str.lower() and the lexicographic order of sorted() are computed.       *)
(* A Python dict is a sequence of entries in insertion order (the order    *)
(* the language guarantees since Python 3.7); a missing key is no entry.   *)
(* A metadata record carries the identity of its Python object (id): the   *)
(* functions return lists of references to the records of their input.     *)
(***************************************************************************)
EXTENDS Integers, Sequences, FiniteSets, TLC

VARIABLES
    \* ---- provenance logger (ProvenanceLogger) and its log file ----
    work_dir_exists,  \* os.path.exists(dirname(self._log_file))
    log_file,         \* the YAML log file: [exists, text]
    table,            \* self.table of the logger of the open session
    pl_pc,            \* "closed", "open" (inside the with-block), "raised"
    pl_error,         \* the exception of the last log call, or "none"
    pl_call,          \* the last log call: <<filename, record>> or << >>
    logged,           \* the entries logged successfully in this session
    on_entry,         \* the table as loaded when the session was entered
    exit_table,       \* the table in memory when the scope was last exited
    exit_how,         \* how the scope was last exited
    made_dir,         \* the last _save created the directory
    sessions,         \* number of sessions entered
    calls,            \* number of log calls in this session
    \* ---- the metadata functions ----
    input_metadata,   \* the list of metadata records given to the function
    md_call,          \* the function called and its other arguments
    md_result,        \* what the function returned
    \* ---- run_diagnostic ----
    fs,               \* the output directories on disk
    fs0,              \* the output directories when run_diagnostic started
    cfg,              \* the settings: write_netcdf, write_plots
    args,             \* the command line: force, ignore_existing
    rd_pc,            \* where run_diagnostic is
    output_directories,
    existing,
    rd_i,             \* the turn of the loop being run
    error_logged,     \* logger.error(...) of line 388 was called
    rd_error,         \* the exception that left run_diagnostic, or "none"
    removed,          \* the directories rmtree has removed
    created,          \* the directories makedirs has created
    body_ran,         \* the body of the caller's with-block has run
    \* ---- the loaders of AlbedoDiagnostic and LandCoverDiagnostic ----
    ld_diag,          \* the class of the diagnostic: "alb" or "lc"
    ld_var,           \* get_variables()[0] (alb), self.var (lc)
    ld_grid,          \* the (lat, lon) sizes of the input files on disk
    ld_newdir,        \* the AUX_Files directory exists
    ld_copies,        \* the aggregated copies in the AUX_Files directory
    mod_file,         \* self._mod_file
    mod_file_E,       \* self._mod_file_E, or Unset
    ref_file,         \* self._ref_file
    mod_data,         \* self._mod_data: what it was loaded from, or Unset
    ref_data,         \* self._ref_data: what it was loaded from, or Unset
    ld_last,          \* the last call of a loader and what it did
    ld_aggregated,    \* the files given to _aggregate_resolution, in order
    ld_calls          \* number of calls of a loader

pl_vars == <<work_dir_exists, log_file, table, pl_pc, pl_error, pl_call,
             logged, on_entry, exit_table, exit_how, made_dir, sessions,
             calls>>

md_vars == <<input_metadata, md_call, md_result>>

rd_vars == <<fs, fs0, cfg, args, rd_pc, output_directories, existing, rd_i,
             error_logged, rd_error, removed, created, body_ran>>

ld_vars == <<ld_diag, ld_var, ld_grid, ld_newdir, ld_copies, mod_file,
             mod_file_E, ref_file, mod_data, ref_data, ld_last, ld_aggregated,
             ld_calls>>

vars == <<pl_vars, md_vars, rd_vars, ld_vars>>

(***************************************************************************)
(* Bounds.                                                                 *)
(***************************************************************************)
MaxSessions == 2
MaxCalls == 3
MaxLen == 3
MaxLoads == 3

(***************************************************************************)
(* Python strings.                                                         *)
(***************************************************************************)
RECURSIVE StrLess(_, _)
\* s < t for two str objects: lexicographic on the code points
StrLess(s, t) ==
    IF t = << >> THEN FALSE
    ELSE IF s = << >> THEN TRUE
    ELSE IF Head(s) # Head(t) THEN Head(s) < Head(t)
    ELSE StrLess(Tail(s), Tail(t))

\* str.lower() on one character
LowerChar(c) == IF c >= 65 /\ c <= 90 THEN c + 32 ELSE c

\* str.lower()
Lower(s) == [i \in 1..Len(s) |-> LowerChar(s[i])]

RECURSIVE TupleLess(_, _)
\* x < y for two tuples of str: lexicographic, element by element
TupleLess(x, y) ==
    IF y = << >> THEN FALSE
    ELSE IF x = << >> THEN TRUE
    ELSE IF Head(x) # Head(y) THEN StrLess(Head(x), Head(y))
    ELSE TupleLess(Tail(x), Tail(y))

RECURSIVE InsertByKey(_, _)
\* put p into the sorted list ps, behind every element that is not greater
InsertByKey(ps, p) ==
    IF ps = << >> THEN <<p>>
    ELSE IF TupleLess(p.key, Head(ps).key) THEN <<p>> \o ps
    ELSE <<Head(ps)>> \o InsertByKey(Tail(ps), p)

RECURSIVE SortPairs(_)
SortPairs(ps) ==
    IF ps = << >> THEN << >>
    ELSE InsertByKey(SortPairs(SubSeq(ps, 1, Len(ps) - 1)), ps[Len(ps)])

\* sorted(iterable, key=...): a stable sort; ps pairs each item with its key
sorted(ps) ==
    LET s == SortPairs(ps) IN [i \in 1..Len(s) |-> s[i].item]

(***************************************************************************)
(* Dictionaries: a sequence of entries [key, value] in insertion order.    *)
(***************************************************************************)
Keys(d) == {d[i].key : i \in 1..Len(d)}

\* key in d
HasKey(d, k) == k \in Keys(d)

\* d[k]
Get(d, k) == d[CHOOSE i \in 1..Len(d) : d[i].key = k].value

\* d[k] = v
Put(d, k, v) ==
    IF HasKey(d, k)
    THEN [i \in 1..Len(d) |-> IF d[i].key = k THEN [key |-> k, value |-> v]
                                              ELSE d[i]]
    ELSE Append(d, [key |-> k, value |-> v])

(***************************************************************************)
(* The provenance logger.                                                  *)
(***************************************************************************)
\* output file names: "a", "b", "c"
Filenames == {<<97>>, <<98>>, <<99>>}

\* provenance records
Records == {[caption |-> "first"], [caption |-> "second"]}

NoFile == [exists |-> FALSE, text |-> << >>]

\* yaml.safe_dump(table): a block mapping, one line per key, keys sorted
safe_dump(d) ==
    LET s == sorted([i \in 1..Len(d) |-> [key |-> <<d[i].key>>, item |-> d[i]]])
    IN  [i \in 1..Len(s) |-> <<s[i].key, s[i].value>>]

RECURSIVE safe_load(_)
\* yaml.safe_load(file): the mapping of the lines of the document
safe_load(text) ==
    IF text = << >> THEN << >>
    ELSE Put(safe_load(SubSeq(text, 1, Len(text) - 1)),
             text[Len(text)][1], text[Len(text)][2])

\* a plausible slip: the logger always starts with an empty table
init_always_empty(file) == << >>

\* ProvenanceLogger.__init__: the table the logger starts with
ProvenanceLogger_init(file) ==
    IF ~file.exists THEN << >> ELSE safe_load(file.text)

\* a plausible slip: the entry is written over the existing one
log_overwrite(tbl, filename, record) ==
    [table |-> Put(tbl, filename, record), error |-> "none"]

\* a plausible slip: the entry is stored before the check that raises
log_store_then_raise(tbl, filename, record) ==
    IF HasKey(tbl, filename)
    THEN [table |-> Put(tbl, filename, record), error |-> "KeyError"]
    ELSE [table |-> Put(tbl, filename, record), error |-> "none"]

\* ProvenanceLogger.log: the table after the call and the exception raised
log(tbl, filename, record) ==
    IF HasKey(tbl, filename)
    THEN [table |-> tbl, error |-> "KeyError"]
    ELSE [table |-> Put(tbl, filename, record), error |-> "none"]

\* a plausible slip: the parent directory is not created, the open() fails
save_no_makedirs(tbl, dir_exists) ==
    IF dir_exists
    THEN [dir_exists |-> TRUE, made_dir |-> FALSE,
          file |-> [exists |-> TRUE, text |-> safe_dump(tbl)]]
    ELSE [dir_exists |-> FALSE, made_dir |-> FALSE, file |-> NoFile]

\* ProvenanceLogger._save: the directory and the file after the call
save(tbl, dir_exists) ==
    [dir_exists |-> TRUE,
     made_dir |-> ~dir_exists,
     file |-> [exists |-> TRUE, text |-> safe_dump(tbl)]]

\* a plausible slip: the log is saved only when the block raised nothing
exit_on_success_only(tbl, dir_exists, file, exc) ==
    IF exc = "none"
    THEN save(tbl, dir_exists)
    ELSE [dir_exists |-> dir_exists, made_dir |-> FALSE, file |-> file]

\* ProvenanceLogger.__exit__(self, *_): the exception is not looked at
ProvenanceLogger_exit(tbl, dir_exists, file, exc) ==
    save(tbl, dir_exists)

\* with ProvenanceLogger(cfg) as provenance_logger: __init__ and __enter__
Enter ==
    /\ pl_pc = "closed"
    /\ sessions < MaxSessions
    /\ table' = ProvenanceLogger_init(log_file)
    /\ on_entry' = ProvenanceLogger_init(log_file)
    /\ pl_pc' = "open"
    /\ pl_error' = "none"
    /\ pl_call' = << >>
    /\ logged' = {}
    /\ calls' = 0
    /\ sessions' = sessions + 1
    /\ UNCHANGED <<work_dir_exists, log_file, exit_table, exit_how, made_dir>>
    /\ UNCHANGED <<md_vars, rd_vars, ld_vars>>

\* provenance_logger.log(filename, record) inside the with-block; the
\* caller either catches the KeyError and goes on, or lets it leave the block
Log(filename, record, caught) ==
    /\ pl_pc = "open"
    /\ calls < MaxCalls
    /\ LET r == log(table, filename, record)
       IN  /\ table' = r.table
           /\ pl_error' = r.error
           /\ logged' = IF r.error = "none"
                        THEN logged \cup {<<filename, record>>}
                        ELSE logged
           /\ pl_pc' = IF r.error = "none" \/ caught THEN "open" ELSE "raised"
    /\ pl_call' = <<filename, record>>
    /\ calls' = calls + 1
    /\ UNCHANGED <<work_dir_exists, log_file, on_entry, exit_table, exit_how,
                   made_dir, sessions>>
    /\ UNCHANGED <<md_vars, rd_vars, ld_vars>>

\* some other statement of the with-block raises
BodyRaises ==
    /\ pl_pc = "open"
    /\ pl_pc' = "raised"
    /\ pl_error' = "other"
    /\ UNCHANGED <<work_dir_exists, log_file, table, pl_call, logged, on_entry,
                   exit_table, exit_how, made_dir, sessions, calls>>
    /\ UNCHANGED <<md_vars, rd_vars, ld_vars>>

\* the with-block is left: __exit__ runs _save, whatever the exception
Exit ==
    /\ pl_pc \in {"open", "raised"}
    /\ LET s == ProvenanceLogger_exit(table, work_dir_exists, log_file,
                                       IF pl_pc = "open" THEN "none"
                                                         ELSE pl_error)
       IN  /\ work_dir_exists' = s.dir_exists
           /\ made_dir' = s.made_dir
           /\ log_file' = s.file
    /\ exit_table' = table
    /\ exit_how' = IF pl_pc = "open" THEN "normal" ELSE pl_error
    /\ pl_pc' = "closed"
    /\ UNCHANGED <<table, pl_error, pl_call, logged, on_entry, sessions, calls>>
    /\ UNCHANGED <<md_vars, rd_vars, ld_vars>>

PlNext ==
    \/ Enter
    \/ \E f \in Filenames, r \in Records, c \in BOOLEAN : Log(f, r, c)
    \/ BodyRaises
    \/ Exit

(***************************************************************************)
(* Metadata: selection, grouping and sorting.                              *)
(***************************************************************************)
\* attribute values: a str, or None
Str(codes) == [t |-> "str", s |-> codes]
None == [t |-> "none", s |-> << >>]

\* str(value)
str(v) == IF v.t = "none" THEN <<78, 111, 110, 101>> ELSE v.s

\* the wildcard '*'
Star == Str(<<42>>)

\* dict.get(key, default)
GetOr(d, k, default) == IF HasKey(d, k) THEN Get(d, k) ELSE default

\* a plausible slip: the wildcard also selects records without the attribute
Matches_wildcard_any(attribs, attributes) ==
    \A i \in 1..Len(attributes) :
        LET a == attributes[i].key
        IN  \/ Get(attributes, a) = Star
            \/ HasKey(attribs, a) /\ Get(attribs, a) = Get(attributes, a)

\* the all(...) of select_metadata, over the keyword arguments
Matches(attribs, attributes) ==
    \A i \in 1..Len(attributes) :
        LET a == attributes[i].key
        IN  /\ HasKey(attribs, a)
            /\ \/ Get(attribs, a) = Get(attributes, a)
               \/ Get(attributes, a) = Star

\* select_metadata(metadata, **attributes)
select_metadata(metadata, attributes) ==
    SelectSeq(metadata, LAMBDA m : Matches(m.attrs, attributes))

\* the sort argument: None, a bool, a str or a list of str
SortNone == [kind |-> "none", flag |-> FALSE, name |-> "", keys |-> << >>]
SortBool(b) == [kind |-> "bool", flag |-> b, name |-> "", keys |-> << >>]
SortStr(k) == [kind |-> "str", flag |-> FALSE, name |-> k, keys |-> << >>]
SortList(ks) == [kind |-> "list", flag |-> FALSE, name |-> "", keys |-> ks]

\* the truth value of the sort argument (if sort:)
Truthy(sort) ==
    CASE sort.kind = "none" -> FALSE
      [] sort.kind = "bool" -> sort.flag
      [] sort.kind = "str" -> sort.name # ""
      [] sort.kind = "list" -> sort.keys # << >>

\* a plausible slip: the key is not lower-cased
normalized_variable_key_case(attributes, sort) ==
    [i \in 1..Len(sort) |-> str(GetOr(attributes, sort[i], Str(<< >>)))]

\* normalized_variable_key(attributes), for the list sort of attribute names
normalized_variable_key(attributes, sort) ==
    [i \in 1..Len(sort) |-> Lower(str(GetOr(attributes, sort[i], Str(<< >>))))]

\* sorted_metadata(metadata, sort)
sorted_metadata(metadata, sort) ==
    LET keys == IF sort.kind = "str" THEN <<sort.name>> ELSE sort.keys
    IN  sorted([i \in 1..Len(metadata) |->
                  [key |-> normalized_variable_key(metadata[i].attrs, keys),
                   item |-> metadata[i]]])

\* a plausible slip: the null key is sorted as str(None)
normalized_group_key_str(key) == Lower(str(key))

\* normalized_group_key
normalized_group_key(key) ==
    IF key = None THEN << >> ELSE Lower(str(key))

\* sorted_group_metadata(metadata_groups, sort)
sorted_group_metadata(metadata_groups, sort) ==
    LET srt == IF sort.kind = "bool" /\ sort.flag THEN SortList(<< >>) ELSE sort
        ks == sorted([i \in 1..Len(metadata_groups) |->
                 [key |-> <<normalized_group_key(metadata_groups[i].key)>>,
                  item |-> metadata_groups[i].key]])
    IN  [i \in 1..Len(ks) |->
            [key |-> ks[i],
             value |-> sorted_metadata(Get(metadata_groups, ks[i]), srt)]]

RECURSIVE GroupLoop(_, _)
\* the loop of group_metadata over the records of metadata
GroupLoop(metadata, attribute) ==
    IF metadata = << >> THEN << >>
    ELSE LET groups == GroupLoop(SubSeq(metadata, 1, Len(metadata) - 1),
                                 attribute)
             attributes == metadata[Len(metadata)]
             key == GetOr(attributes.attrs, attribute, None)
         IN  Put(groups, key, Append(GetOr(groups, key, << >>), attributes))

\* a plausible slip: the groups are always sorted
group_metadata_always_sorted(metadata, attribute, sort) ==
    sorted_group_metadata(GroupLoop(metadata, attribute),
                          IF Truthy(sort) THEN sort ELSE SortBool(TRUE))

\* a plausible slip: a record without the attribute is left out
group_metadata_skip_missing(metadata, attribute, sort) ==
    LET groups == GroupLoop(SelectSeq(metadata,
                      LAMBDA m : HasKey(m.attrs, attribute)), attribute)
    IN  IF Truthy(sort) THEN sorted_group_metadata(groups, sort) ELSE groups

\* group_metadata(metadata, attribute, sort=None)
group_metadata(metadata, attribute, sort) ==
    LET groups == GroupLoop(metadata, attribute)
    IN  IF Truthy(sort) THEN sorted_group_metadata(groups, sort) ELSE groups

\* the attribute names and the values they take in the input
VarValues == {Str(<<97>>), Str(<<66>>), Str(<<98>>)}
ExpValues == {Str(<<97>>), None}
Missing == [t |-> "missing", s |-> << >>]

\* the dict with the given values of var and exp (Missing: no such key)
Attrs(var, exp) ==
    SelectSeq(<<[key |-> "var", value |-> var], [key |-> "exp", value |-> exp]>>,
              LAMBDA e : e.value # Missing)

MetadataRecords ==
    {Attrs(v, e) : v \in VarValues \cup {Missing}, e \in ExpValues \cup {Missing}}

\* the lists of at most MaxLen metadata records, each its own object
MetadataLists ==
    UNION {{[i \in 1..n |-> [id |-> i, attrs |-> f[i]]] :
                f \in [1..n -> MetadataRecords]} : n \in 0..MaxLen}

\* the keyword arguments given to select_metadata
SelectArguments ==
    {Attrs(v, e) : v \in {Str(<<97>>), Str(<<98>>), Star, Missing},
                   e \in {Str(<<97>>), None, Star, Missing}}

AttributeNames == {"var", "exp"}

\* the sort arguments given to group_metadata
GroupSortArguments ==
    {SortNone, SortList(<< >>), SortBool(TRUE), SortStr("var"),
     SortList(<<"exp", "var">>)}

\* the sort arguments given to sorted_metadata
SortArguments ==
    {SortStr("var"), SortList(<<"exp">>), SortList(<<"exp", "var">>),
     SortList(<<"var", "exp">>)}

\* the sort arguments given to sorted_group_metadata
SortedGroupArguments ==
    {SortBool(TRUE), SortStr("var"), SortList(<<"exp", "var">>)}

MdIdle == [op |-> "none"]

Select(attributes) ==
    /\ md_call = MdIdle
    /\ md_call' = [op |-> "select_metadata", attributes |-> attributes]
    /\ md_result' = select_metadata(input_metadata, attributes)
    /\ UNCHANGED <<input_metadata, pl_vars, rd_vars, ld_vars>>

Group(attribute, sort) ==
    /\ md_call = MdIdle
    /\ md_call' = [op |-> "group_metadata", attribute |-> attribute,
                   sort |-> sort]
    /\ md_result' = group_metadata(input_metadata, attribute, sort)
    /\ UNCHANGED <<input_metadata, pl_vars, rd_vars, ld_vars>>

Sorted(sort) ==
    /\ md_call = MdIdle
    /\ md_call' = [op |-> "sorted_metadata", sort |-> sort]
    /\ md_result' = sorted_metadata(input_metadata, sort)
    /\ UNCHANGED <<input_metadata, pl_vars, rd_vars, ld_vars>>

\* sorted_group_metadata on the groups that group_metadata has made
SortedGroup(attribute, sort) ==
    /\ md_call = MdIdle
    /\ LET groups == group_metadata(input_metadata, attribute, SortNone)
       IN  /\ md_call' = [op |-> "sorted_group_metadata", groups |-> groups,
                          sort |-> sort]
           /\ md_result' = sorted_group_metadata(groups, sort)
    /\ UNCHANGED <<input_metadata, pl_vars, rd_vars, ld_vars>>

MdNext ==
    \/ \E attributes \in SelectArguments : Select(attributes)
    \/ \E attribute \in AttributeNames, sort \in GroupSortArguments :
          Group(attribute, sort)
    \/ \E sort \in SortArguments : Sorted(sort)
    \/ \E attribute \in AttributeNames, sort \in SortedGroupArguments :
          SortedGroup(attribute, sort)

(***************************************************************************)
(* run_diagnostic: the output directories.                                 *)
(* work_dir and plot_dir are two different directories, neither inside the *)
(* other.  A directory is "absent", or it exists and is "empty" or holds   *)
(* "data" of an earlier run.                                               *)
(***************************************************************************)
Dirs == {"work_dir", "plot_dir"}

\* os.path.exists(p)
exists(files, p) == files[p] # "absent"

\* a plausible slip: both directories are listed whatever the settings say
OutputDirectories_both(config) == <<"work_dir", "plot_dir">>

\* output_directories, as lines 374-378 build it
OutputDirectories(config) ==
    (IF config.write_netcdf THEN <<"work_dir">> ELSE << >>)
    \o (IF config.write_plots THEN <<"plot_dir">> ELSE << >>)

\* existing = [p for p in output_directories if os.path.exists(p)]
Existing(output_dirs, files) ==
    SelectSeq(output_dirs, LAMBDA p : exists(files, p))

\* a plausible slip: --ignore-existing is looked at before --force
existing_policy_ignore_first(existing_dirs, arguments) ==
    IF existing_dirs = << >> THEN "none"
    ELSE IF arguments.ignore_existing THEN "none"
    ELSE IF arguments.force THEN "remove"
    ELSE "error"

\* the if existing: ... of lines 382-393: what is done about existing
\* directories
existing_policy(existing_dirs, arguments) ==
    IF existing_dirs = << >> THEN "none"
    ELSE IF arguments.force THEN "remove"
    ELSE IF ~arguments.ignore_existing THEN "error"
    ELSE "none"

\* shutil.rmtree(p)
rmtree(files, p) ==
    IF exists(files, p)
    THEN [files |-> [files EXCEPT ![p] = "absent"], error |-> "none"]
    ELSE [files |-> files, error |-> "FileNotFoundError"]

\* a plausible slip: os.makedirs(p, exist_ok=True)
makedirs_exist_ok(files, p) ==
    IF exists(files, p)
    THEN [files |-> files, error |-> "none"]
    ELSE [files |-> [files EXCEPT ![p] = "empty"], error |-> "none"]

\* os.makedirs(p)
makedirs(files, p) ==
    IF exists(files, p)
    THEN [files |-> files, error |-> "FileExistsError"]
    ELSE [files |-> [files EXCEPT ![p] = "empty"], error |-> "none"]

\* a plausible slip: with --ignore-existing no directory is created
skip_creation_always(files, arguments, p) == arguments.ignore_existing

\* line 397: the directory is skipped by the loop that creates them
skip_creation(files, arguments, p) ==
    arguments.ignore_existing /\ exists(files, p)

\* lines 354-393: the arguments and the settings are read, the output
\* directories listed and the policy on the existing ones decided
Setup ==
    /\ rd_pc = "start"
    /\ output_directories' = OutputDirectories(cfg)
    /\ existing' = Existing(OutputDirectories(cfg), fs)
    /\ LET policy == existing_policy(existing', args)
       IN  /\ error_logged' = (policy = "error")
           /\ rd_pc' = IF policy = "remove" THEN "remove" ELSE "create"
    /\ rd_i' = 1
    /\ UNCHANGED <<fs, fs0, cfg, args, removed, created, body_ran, rd_error>>
    /\ UNCHANGED <<pl_vars, md_vars, ld_vars>>

\* lines 384-386: one turn of the loop that removes the existing directories
Remove ==
    /\ rd_pc = "remove"
    /\ rd_i <= Len(existing)
    /\ LET r == rmtree(fs, existing[rd_i])
       IN  /\ fs' = r.files
           /\ rd_error' = r.error
           /\ removed' = IF r.error = "none"
                         THEN removed \cup {existing[rd_i]} ELSE removed
           /\ rd_pc' = IF r.error # "none" THEN "raised"
                       ELSE IF rd_i = Len(existing) THEN "create"
                       ELSE "remove"
           /\ rd_i' = IF r.error = "none" /\ rd_i < Len(existing)
                      THEN rd_i + 1 ELSE 1
    /\ UNCHANGED <<fs0, cfg, args, output_directories, existing, created,
                   body_ran, error_logged>>
    /\ UNCHANGED <<pl_vars, md_vars, ld_vars>>

\* lines 395-399: one turn of the loop that creates the output directories
Create ==
    /\ rd_pc = "create"
    /\ rd_i <= Len(output_directories)
    /\ LET p == output_directories[rd_i]
           r == IF skip_creation(fs, args, p)
                THEN [files |-> fs, error |-> "none"]
                ELSE makedirs(fs, p)
       IN  /\ fs' = r.files
           /\ rd_error' = r.error
           /\ created' = IF r.error = "none" /\ ~skip_creation(fs, args, p)
                         THEN created \cup {p} ELSE created
           /\ rd_pc' = IF r.error # "none" THEN "raised" ELSE "create"
    /\ rd_i' = rd_i + 1
    /\ UNCHANGED <<fs0, cfg, args, output_directories, existing, removed,
                   body_ran, error_logged>>
    /\ UNCHANGED <<pl_vars, md_vars, ld_vars>>

\* line 401: yield cfg, the body of the caller's with-block runs and may
\* write its output; line 403 follows
Yield ==
    /\ rd_pc = "create"
    /\ rd_i > Len(output_directories)
    /\ rd_pc' = "yielded"
    /\ UNCHANGED <<fs, fs0, cfg, args, output_directories, existing, removed,
                   created, body_ran, error_logged, rd_error, rd_i>>
    /\ UNCHANGED <<pl_vars, md_vars, ld_vars>>

Body ==
    /\ rd_pc = "yielded"
    /\ body_ran' = TRUE
    /\ fs' = [p \in Dirs |->
                IF \E i \in 1..Len(output_directories) :
                       output_directories[i] = p
                THEN "data" ELSE fs[p]]
    /\ rd_pc' = "done"
    /\ UNCHANGED <<fs0, cfg, args, output_directories, existing, removed,
                   created, error_logged, rd_error, rd_i>>
    /\ UNCHANGED <<pl_vars, md_vars, ld_vars>>

RdNext ==
    \/ Setup
    \/ Remove
    \/ Create
    \/ Yield
    \/ Body

(***************************************************************************)
(* The loaders of AlbedoDiagnostic and LandCoverDiagnostic.                *)
(* A path is its directory and the parts of its file name.  The work       *)
(* directory exists.  _aggregate_resolution, _load_cmip_generic and        *)
(* _load_cci_generic are methods of BasicDiagnostics: the first writes a   *)
(* temporary file with the data on the T63 grid (96 x 192), the others     *)
(* load a variable from a path.                                            *)
(***************************************************************************)
Unset == [dir |-> "", name |-> << >>]

ModFile == [dir |-> "input", name |-> <<"model.nc">>]
RefFile == [dir |-> "input", name |-> <<"obs.nc">>]
InputFiles == {ModFile, RefFile}

\* the grids of the input files
Grids == {<<96, 192>>, <<6, 12>>, <<18, 36>>, <<96, 12>>, <<180, 360>>}

\* the variables a diagnostic is run for
Variables == {"alb", "baresoilFrac", "grassNcropFrac", "shrubNtreeFrac", "sm"}

\* newdir: the AUX_Files directory under the work directory
NewDir(diag) ==
    IF diag = "alb" THEN "AUX_Files_alb_QA4ECV" ELSE "AUX_Files_lc_ESACCI"

\* newfile: the path of the aggregated copy of a file
NewFile(diag, file) ==
    [dir |-> NewDir(diag), name |-> Append(file.name, "T63built.nc")]

\* Dataset(file).dimensions: an aggregated copy is on the T63 grid
Dimensions(grids, file) ==
    IF file \in DOMAIN grids THEN grids[file] ELSE <<96, 192>>

\* the condition of lines 62-64 (alb), 212-214 and 244-246 (lc)
NeedsAggregation(lat, lon) ==
    ~(\/ (lat = 96 /\ lon = 192)
      \/ (lat = 6 /\ lon = 12)
      \/ (lat = 18 /\ lon = 36))

\* a plausible slip: the file is aggregated again though the copy exists
MatchResolution_always(diag, file, grids, copies) ==
    LET newfile == NewFile(diag, file)
        dims == Dimensions(grids, file)
    IN  IF NeedsAggregation(dims[1], dims[2])
        THEN [steps |-> <<"_aggregate_resolution", "mkdir", "cp", "remove">>,
              copies |-> copies \cup {newfile},
              edited |-> TRUE, path |-> newfile]
        ELSE [steps |-> << >>, copies |-> copies, edited |-> FALSE,
              path |-> file]

\* the first part of every loader: the steps run, the copies afterwards and
\* the path to load from
MatchResolution(diag, file, grids, copies) ==
    LET newfile == NewFile(diag, file)
        dims == Dimensions(grids, file)
    IN  IF NeedsAggregation(dims[1], dims[2])
        THEN IF newfile \notin copies
             THEN [steps |-> <<"_aggregate_resolution", "mkdir", "cp",
                               "remove">>,
                   copies |-> copies \cup {newfile},
                   edited |-> TRUE, path |-> newfile]
             ELSE [steps |-> << >>, copies |-> copies, edited |-> TRUE,
                   path |-> newfile]
        ELSE [steps |-> << >>, copies |-> copies, edited |-> FALSE,
              path |-> file]

\* a plausible slip: a variable that is not supported is loaded all the same
Supported_any(diag, var) == TRUE

\* the condition of line 109 (alb) and of line 256 (lc)
Supported(diag, var) ==
    IF diag = "alb" THEN var = "alb"
    ELSE var \in {"baresoilFrac", "grassNcropFrac", "shrubNtreeFrac"}

\* _load_model_data of either class
LoadModelData ==
    /\ ld_calls < MaxLoads
    /\ ld_diag \in {"alb", "lc"}
    /\ LET m == MatchResolution(ld_diag, mod_file, ld_grid, ld_copies)
       IN  /\ ld_copies' = m.copies
           /\ ld_newdir' = (ld_newdir \/ m.steps # << >>)
           /\ mod_file_E' = IF m.edited THEN m.path ELSE mod_file_E
           /\ mod_data' = [path |-> IF m.edited THEN m.path ELSE mod_file,
                           var |-> ld_var]
           /\ ld_aggregated' = IF m.steps # << >>
                               THEN Append(ld_aggregated, mod_file)
                               ELSE ld_aggregated
           /\ ld_last' = [op |-> "_load_model_data", file |-> mod_file,
                          dims |-> Dimensions(ld_grid, mod_file),
                          copy_existed |->
                              NewFile(ld_diag, mod_file) \in ld_copies,
                          steps |-> m.steps, error |-> "none",
                          loaded |-> mod_data']
    /\ ld_calls' = ld_calls + 1
    /\ UNCHANGED <<ld_diag, ld_var, ld_grid, mod_file, ref_file, ref_data>>
    /\ UNCHANGED <<pl_vars, md_vars, rd_vars>>

\* _load_observation_data of either class
LoadObservationData ==
    /\ ld_calls < MaxLoads
    /\ ld_diag \in {"alb", "lc"}
    /\ LET m == MatchResolution(ld_diag, ref_file, ld_grid, ld_copies)
           ok == Supported(ld_diag, ld_var)
       IN  /\ ld_copies' = m.copies
           /\ ld_newdir' = (ld_newdir \/ m.steps # << >>)
           /\ ref_file' = IF m.edited THEN m.path ELSE ref_file
           /\ ref_data' = IF ok THEN [path |-> ref_file', var |-> ld_var]
                          ELSE ref_data
           /\ ld_aggregated' = IF m.steps # << >>
                               THEN Append(ld_aggregated, ref_file)
                               ELSE ld_aggregated
           /\ ld_last' = [op |-> "_load_observation_data", file |-> ref_file,
                          dims |-> Dimensions(ld_grid, ref_file),
                          copy_existed |->
                              NewFile(ld_diag, ref_file) \in ld_copies,
                          steps |-> m.steps,
                          error |-> IF ok THEN "none" ELSE "AssertionError",
                          loaded |-> IF ok THEN ref_data' ELSE Unset]
    /\ ld_calls' = ld_calls + 1
    /\ UNCHANGED <<ld_diag, ld_var, ld_grid, mod_file, mod_file_E, mod_data>>
    /\ UNCHANGED <<pl_vars, md_vars, rd_vars>>

LdIdle == [op |-> "none"]

LdNext ==
    \/ LoadModelData
    \/ LoadObservationData

(***************************************************************************)
(* The specifications: each part of the module on its own, the others at   *)
(* rest.                                                                   *)
(***************************************************************************)
\* the provenance logger: no session yet, no log file yet
InitProv ==
    /\ work_dir_exists \in BOOLEAN
    /\ log_file = NoFile
    /\ table = << >>
    /\ pl_pc = "closed"
    /\ pl_error = "none"
    /\ pl_call = << >>
    /\ logged = {}
    /\ on_entry = << >>
    /\ exit_table = << >>
    /\ exit_how = "none"
    /\ made_dir = FALSE
    /\ sessions = 0
    /\ calls = 0
    /\ input_metadata = << >>
    /\ md_call = MdIdle
    /\ md_result = << >>
    /\ fs = [p \in Dirs |-> "absent"]
    /\ fs0 = fs
    /\ cfg = [write_netcdf |-> FALSE, write_plots |-> FALSE]
    /\ args = [force |-> FALSE, ignore_existing |-> FALSE]
    /\ rd_pc = "idle"
    /\ output_directories = << >>
    /\ existing = << >>
    /\ rd_i = 1
    /\ error_logged = FALSE
    /\ rd_error = "none"
    /\ removed = {}
    /\ created = {}
    /\ body_ran = FALSE
    /\ ld_diag = "alb"
    /\ ld_var = "alb"
    /\ ld_grid = [f \in InputFiles |-> <<96, 192>>]
    /\ ld_newdir = FALSE
    /\ ld_copies = {}
    /\ mod_file = ModFile
    /\ mod_file_E = Unset
    /\ ref_file = RefFile
    /\ mod_data = Unset
    /\ ref_data = Unset
    /\ ld_last = LdIdle
    /\ ld_aggregated = << >>
    /\ ld_calls = 0

SpecProv == InitProv /\ [][PlNext]_vars

\* the metadata functions: a list of metadata records, no call yet
InitMeta ==
    /\ input_metadata \in MetadataLists
    /\ md_call = MdIdle
    /\ md_result = << >>
    /\ work_dir_exists = FALSE
    /\ log_file = NoFile
    /\ table = << >>
    /\ pl_pc = "closed"
    /\ pl_error = "none"
    /\ pl_call = << >>
    /\ logged = {}
    /\ on_entry = << >>
    /\ exit_table = << >>
    /\ exit_how = "none"
    /\ made_dir = FALSE
    /\ sessions = 0
    /\ calls = 0
    /\ fs = [p \in Dirs |-> "absent"]
    /\ fs0 = fs
    /\ cfg = [write_netcdf |-> FALSE, write_plots |-> FALSE]
    /\ args = [force |-> FALSE, ignore_existing |-> FALSE]
    /\ rd_pc = "idle"
    /\ output_directories = << >>
    /\ existing = << >>
    /\ rd_i = 1
    /\ error_logged = FALSE
    /\ rd_error = "none"
    /\ removed = {}
    /\ created = {}
    /\ body_ran = FALSE
    /\ ld_diag = "alb"
    /\ ld_var = "alb"
    /\ ld_grid = [f \in InputFiles |-> <<96, 192>>]
    /\ ld_newdir = FALSE
    /\ ld_copies = {}
    /\ mod_file = ModFile
    /\ mod_file_E = Unset
    /\ ref_file = RefFile
    /\ mod_data = Unset
    /\ ref_data = Unset
    /\ ld_last = LdIdle
    /\ ld_aggregated = << >>
    /\ ld_calls = 0

SpecMeta == InitMeta /\ [][MdNext]_vars

\* run_diagnostic: the directories on disk, the settings, the arguments
InitRun ==
    /\ fs \in [Dirs -> {"absent", "empty", "data"}]
    /\ fs0 = fs
    /\ cfg \in [write_netcdf : BOOLEAN, write_plots : BOOLEAN]
    /\ args \in [force : BOOLEAN, ignore_existing : BOOLEAN]
    /\ rd_pc = "start"
    /\ output_directories = << >>
    /\ existing = << >>
    /\ rd_i = 1
    /\ error_logged = FALSE
    /\ rd_error = "none"
    /\ removed = {}
    /\ created = {}
    /\ body_ran = FALSE
    /\ work_dir_exists = FALSE
    /\ log_file = NoFile
    /\ table = << >>
    /\ pl_pc = "closed"
    /\ pl_error = "none"
    /\ pl_call = << >>
    /\ logged = {}
    /\ on_entry = << >>
    /\ exit_table = << >>
    /\ exit_how = "none"
    /\ made_dir = FALSE
    /\ sessions = 0
    /\ calls = 0
    /\ input_metadata = << >>
    /\ md_call = MdIdle
    /\ md_result = << >>
    /\ ld_diag = "alb"
    /\ ld_var = "alb"
    /\ ld_grid = [f \in InputFiles |-> <<96, 192>>]
    /\ ld_newdir = FALSE
    /\ ld_copies = {}
    /\ mod_file = ModFile
    /\ mod_file_E = Unset
    /\ ref_file = RefFile
    /\ mod_data = Unset
    /\ ref_data = Unset
    /\ ld_last = LdIdle
    /\ ld_aggregated = << >>
    /\ ld_calls = 0

SpecRun == InitRun /\ [][RdNext]_vars

\* the loaders: a diagnostic and its variable, the grids of the two input
\* files, and the aggregated copies an earlier run has left
InitLoad ==
    /\ ld_diag \in {"alb", "lc"}
    /\ ld_var \in Variables
    /\ ld_grid \in [InputFiles -> Grids]
    /\ ld_copies \in SUBSET {NewFile(ld_diag, f) : f \in InputFiles}
    /\ ld_newdir \in {b \in BOOLEAN : ld_copies # {} => b}
    /\ mod_file = ModFile
    /\ mod_file_E = Unset
    /\ ref_file = RefFile
    /\ mod_data = Unset
    /\ ref_data = Unset
    /\ ld_last = LdIdle
    /\ ld_aggregated = << >>
    /\ ld_calls = 0
    /\ work_dir_exists = FALSE
    /\ log_file = NoFile
    /\ table = << >>
    /\ pl_pc = "closed"
    /\ pl_error = "none"
    /\ pl_call = << >>
    /\ logged = {}
    /\ on_entry = << >>
    /\ exit_table = << >>
    /\ exit_how = "none"
    /\ made_dir = FALSE
    /\ sessions = 0
    /\ calls = 0
    /\ input_metadata = << >>
    /\ md_call = MdIdle
    /\ md_result = << >>
    /\ fs = [p \in Dirs |-> "absent"]
    /\ fs0 = fs
    /\ cfg = [write_netcdf |-> FALSE, write_plots |-> FALSE]
    /\ args = [force |-> FALSE, ignore_existing |-> FALSE]
    /\ rd_pc = "idle"
    /\ output_directories = << >>
    /\ existing = << >>
    /\ rd_i = 1
    /\ error_logged = FALSE
    /\ rd_error = "none"
    /\ removed = {}
    /\ created = {}
    /\ body_ran = FALSE

SpecLoad == InitLoad /\ [][LdNext]_vars

(***************************************************************************)
(* The provenance logger: properties (checked under SpecProv).             *)
(***************************************************************************)
\* the step is a call of log
IsLogCall == pl_pc = "open" /\ calls' = calls + 1

\* C1: each output path is logged at most once: a call of log with a
\* filename that is a key of the table, logged earlier in the session or
\* loaded from the log file on entry, raises KeyError and neither adds nor
\* replaces an entry; a filename never has two successfully logged records,
\* and none that was in the file on entry.
C1_DuplicateRejected ==
    /\ [][IsLogCall /\ HasKey(table, pl_call'[1])
            => pl_error' = "KeyError" /\ table' = table /\ logged' = logged]_vars
    /\ [](\A e \in logged :
             /\ ~HasKey(on_entry, e[1])
             /\ \A d \in logged : d[1] = e[1] => d = e)

\* a log call was rejected for a filename loaded from the log file on entry
C1_Witness ==
    /\ pl_call # << >>
    /\ pl_error = "KeyError"
    /\ HasKey(on_entry, pl_call[1])
    /\ Get(table, pl_call[1]) # pl_call[2]

\* C2: after a session has ended, a new ProvenanceLogger for the same
\* work_dir starts with a table that maps every filename logged
\* successfully in the session to the record it was logged with.
C2_LoggedEntriesPersist ==
    (pl_pc = "closed" /\ sessions > 0) =>
        LET reopened == ProvenanceLogger_init(log_file)
        IN  \A e \in logged :
                HasKey(reopened, e[1]) /\ Get(reopened, e[1]) = e[2]

\* a session that logged two files and had a rejected call has ended, in a
\* directory that did not exist before
C2_Witness ==
    /\ pl_pc = "closed"
    /\ Cardinality(logged) = 2
    /\ calls = 3
    /\ made_dir

\* C3: when the scope has been exited, normally or by an exception of the
\* with-block (the KeyError of log included), the log file exists in an
\* existing directory and holds exactly the entries of the table that was
\* in memory.
C3_SavedOnEveryExit ==
    (pl_pc = "closed" /\ sessions > 0) =>
        /\ work_dir_exists
        /\ log_file.exists
        /\ Len(log_file.text) = Len(exit_table)
        /\ {log_file.text[i] : i \in 1..Len(log_file.text)}
             = {<<exit_table[i].key, exit_table[i].value>> :
                    i \in 1..Len(exit_table)}

\* the scope was left by the KeyError of log, the table held entries and the
\* directory had to be created
C3_Witness ==
    /\ pl_pc = "closed"
    /\ exit_how = "KeyError"
    /\ made_dir
    /\ Len(exit_table) = 2

\* the lines of the log file, as a set
Lines(file) == {file.text[i] : i \in 1..Len(file.text)}

\* the record a filename had before the last call of log: the one loaded on
\* entry, or the one logged first in this session
FirstRecord(filename) ==
    IF HasKey(on_entry, filename) THEN Get(on_entry, filename)
    ELSE (CHOOSE e \in logged : e[1] = filename)[2]

\* C13: a call of log that raises leaves the keys of the table as they were
\* and the filename mapped to its first record, and when the scope is left
\* after a rejected call it is that first record that is in the file.
C13_RejectedCallChangesNothing ==
    /\ [][IsLogCall /\ pl_error' = "KeyError"
            => /\ Keys(table') = Keys(table)
               /\ Len(table') = Len(table)
               /\ Get(table', pl_call'[1]) = Get(table, pl_call'[1])]_vars
    /\ []((pl_pc = "closed" /\ pl_call # << >> /\ pl_error = "KeyError")
            => /\ <<pl_call[1], FirstRecord(pl_call[1])>> \in Lines(log_file)
               /\ \A l \in Lines(log_file) :
                     l[1] = pl_call[1] => l[2] = FirstRecord(pl_call[1]))

\* the scope was left after a rejected call that gave another record than
\* the one logged first in the session
C13_Witness ==
    /\ pl_pc = "closed"
    /\ pl_call # << >>
    /\ pl_error = "KeyError"
    /\ ~HasKey(on_entry, pl_call[1])
    /\ FirstRecord(pl_call[1]) # pl_call[2]

\* C14: over sessions that follow one another, no line of the log file is
\* ever lost or changed, every entry logged in a session is in the file when
\* the session has ended, and a filename that is in the file is rejected by
\* log in a later session.
C14_EntriesAccumulate ==
    /\ [][Lines(log_file) \subseteq Lines(log_file')]_vars
    /\ []((pl_pc = "closed" /\ sessions > 0) => logged \subseteq Lines(log_file))
    /\ [][(IsLogCall /\ \E l \in Lines(log_file) : l[1] = pl_call'[1])
            => pl_error' = "KeyError" /\ logged' = logged]_vars

\* the second session has ended: the file holds the two entries of the first
\* session and the one of the second, which also had a call rejected for a
\* filename of the first session
C14_Witness ==
    /\ pl_pc = "closed"
    /\ sessions = 2
    /\ Len(on_entry) = 2
    /\ Cardinality(logged) = 1
    /\ Cardinality(Lines(log_file)) = 3
    /\ calls = 2

(***************************************************************************)
(* run_diagnostic: properties (checked under SpecRun).                     *)
(***************************************************************************)
\* the directory is an output directory the settings ask for
Requested(p) ==
    \/ p = "work_dir" /\ cfg.write_netcdf
    \/ p = "plot_dir" /\ cfg.write_plots

\* the requested output directories that existed when run_diagnostic started
RequestedExisting == {p \in Dirs : Requested(p) /\ fs0[p] # "absent"}

\* C4: when a requested output directory exists and neither --force nor
\* --ignore-existing is given, an error is logged, control never reaches
\* the caller's logic, and no directory that existed is removed or changed.
C4_FailsClosed ==
    (rd_pc # "idle" /\ RequestedExisting # {}
        /\ ~args.force /\ ~args.ignore_existing) =>
        /\ rd_pc \notin {"yielded", "done"}
        /\ ~body_ran
        /\ rd_pc # "start" => error_logged
        /\ removed = {}
        /\ \A p \in Dirs : fs0[p] # "absent" => fs[p] = fs0[p]

\* the run was aborted by makedirs on the existing plot_dir, after the
\* error was logged and the missing work_dir was created
C4_Witness ==
    /\ rd_pc = "raised"
    /\ rd_error = "FileExistsError"
    /\ error_logged
    /\ created = {"work_dir"}
    /\ fs["plot_dir"] = "data"

\* C10: with --force (with or without --ignore-existing) every requested
\* directory that existed is removed and every requested directory is
\* created anew; with --ignore-existing alone the existing requested
\* directories are neither removed nor created again and the missing ones
\* are created; in both cases control reaches the caller.
C10_ForceIgnorePolicy ==
    /\ (rd_pc # "idle" /\ args.force) =>
          /\ rd_pc # "raised"
          /\ rd_pc \in {"yielded", "done"} =>
                \A p \in Dirs : Requested(p) =>
                    /\ fs0[p] # "absent" <=> p \in removed
                    /\ p \in created
                    /\ rd_pc = "yielded" => fs[p] = "empty"
    /\ (rd_pc # "idle" /\ args.ignore_existing /\ ~args.force) =>
          /\ rd_pc # "raised"
          /\ removed = {}
          /\ \A p \in Dirs : fs0[p] # "absent" => p \notin created
          /\ rd_pc \in {"yielded", "done"} =>
                \A p \in Dirs : Requested(p) =>
                    /\ fs0[p] = "absent" <=> p \in created
                    /\ rd_pc = "yielded" =>
                          fs[p] = IF fs0[p] = "absent" THEN "empty" ELSE fs0[p]
    /\ (rd_pc = "done" /\ (args.force \/ args.ignore_existing)) => body_ran

\* both flags given, both directories requested and holding data: control
\* has reached the caller with both removed and created anew
C10_Witness ==
    /\ rd_pc = "yielded"
    /\ args.force /\ args.ignore_existing
    /\ fs0 = [p \in Dirs |-> "data"]
    /\ removed = Dirs
    /\ created = Dirs

\* C15: when control is handed to the caller every requested output
\* directory exists, and a directory that is not requested is never removed
\* nor created by run_diagnostic and stays as it was, whatever the flags.
C15_OutputDirectoriesAtYield ==
    rd_pc # "idle" =>
        /\ rd_pc = "yielded" => \A p \in Dirs : Requested(p) => fs[p] # "absent"
        /\ \A p \in Dirs : ~Requested(p) =>
              /\ p \notin removed
              /\ p \notin created
              /\ fs[p] = fs0[p]

\* control is with the caller under --force: the requested work_dir was
\* removed and created, plot_dir is not requested and still holds its data
C15_Witness ==
    /\ rd_pc = "yielded"
    /\ args.force
    /\ cfg.write_netcdf /\ ~cfg.write_plots
    /\ removed = {"work_dir"}
    /\ fs = [p \in Dirs |-> IF p = "work_dir" THEN "empty" ELSE "data"]

(***************************************************************************)
(* The metadata functions: properties (checked under SpecMeta).            *)
(***************************************************************************)
\* the ids of the records of a list, and the list is made of records of the
\* input
Ids(list) == {list[i].id : i \in 1..Len(list)}
FromInput(list) ==
    \A i \in 1..Len(list) :
        /\ list[i].id \in 1..Len(input_metadata)
        /\ list[i] = input_metadata[list[i].id]

\* the record satisfies every constraint
Satisfies(attribs, attributes) ==
    \A a \in Keys(attributes) :
        /\ a \in Keys(attribs)
        /\ \/ Get(attributes, a) = Star
           \/ Get(attribs, a) = Get(attributes, a)

\* C5: select_metadata returns exactly the records that have every
\* constrained attribute, with the required value or under the wildcard
\* '*', each once and in the order of the input; with no constraint it
\* returns every record.
C5_SelectExact ==
    md_call.op = "select_metadata" =>
        /\ FromInput(md_result)
        /\ Ids(md_result) =
              {i \in 1..Len(input_metadata) :
                  Satisfies(input_metadata[i].attrs, md_call.attributes)}
        /\ \A i, j \in 1..Len(md_result) :
              i < j => md_result[i].id < md_result[j].id
        /\ md_call.attributes = << >> => md_result = input_metadata

\* a selection with the wildcard on var and a value for exp, from a list
\* with a record that lacks var, one that has another exp, and two that match
C5_Witness ==
    /\ md_call.op = "select_metadata"
    /\ md_call.attributes = Attrs(Star, Str(<<97>>))
    /\ Len(input_metadata) = 3
    /\ Len(md_result) = 2
    /\ \E i \in 1..3 : ~HasKey(input_metadata[i].attrs, "var")

\* the places <<g, j>> of the members of the groups
Places(groups) ==
    UNION {{<<g, j>> : j \in 1..Len(groups[g].value)} : g \in 1..Len(groups)}

\* C6: group_metadata, sorted or not, partitions its input: every record of
\* the input is in exactly one place of one group, every member is a record
\* of the input, and every member has the attribute equal to the key of its
\* group, or lacks it when the key is None.
C6_GroupPartition ==
    md_call.op = "group_metadata" =>
        /\ \A g \in 1..Len(md_result) : FromInput(md_result[g].value)
        /\ \A i \in 1..Len(input_metadata) :
              Cardinality({x \in Places(md_result) :
                  md_result[x[1]].value[x[2]].id = i}) = 1
        /\ \A g, h \in 1..Len(md_result) :
              md_result[g].key = md_result[h].key => g = h
        /\ \A x \in Places(md_result) :
              LET m == md_result[x[1]].value[x[2]].attrs
                  k == md_result[x[1]].key
              IN  \/ HasKey(m, md_call.attribute)
                       /\ Get(m, md_call.attribute) = k
                  \/ k = None /\ ~HasKey(m, md_call.attribute)

\* three records grouped by exp into two groups; the group of None holds a
\* record without exp and a record whose exp is None
C6_Witness ==
    /\ md_call.op = "group_metadata"
    /\ md_call.attribute = "exp"
    /\ Len(input_metadata) = 3
    /\ Len(md_result) = 2
    /\ \E g \in 1..2 :
          /\ md_result[g].key = None
          /\ Len(md_result[g].value) = 2
          /\ \E j, k \in 1..2 :
                /\ HasKey(md_result[g].value[j].attrs, "exp")
                /\ ~HasKey(md_result[g].value[k].attrs, "exp")

\* the sort key the documentation describes: the lower-cased str of each
\* requested attribute, the empty string for a missing one
SortKey(attribs, names) ==
    [i \in 1..Len(names) |->
        IF names[i] \in Keys(attribs)
        THEN Lower(str(Get(attribs, names[i]))) ELSE << >>]

\* the attribute names a sort argument stands for
SortNames(sort) == IF sort.kind = "str" THEN <<sort.name>> ELSE sort.keys

\* the place of the record with this id in a list
PlaceOf(list, id) == CHOOSE i \in 1..Len(list) : list[i].id = id

\* out is list sorted by the names: the same records, in the order of their
\* keys, records of equal keys in the order they have in list
IsStableSort(out, list, names) ==
    /\ Len(out) = Len(list)
    /\ Ids(out) = Ids(list)
    /\ \A i \in 1..Len(out) : out[i] = list[PlaceOf(list, out[i].id)]
    /\ \A i, j \in 1..Len(out) : i < j =>
          LET ki == SortKey(out[i].attrs, names)
              kj == SortKey(out[j].attrs, names)
          IN  /\ ~TupleLess(kj, ki)
              /\ ki = kj => PlaceOf(list, out[i].id) < PlaceOf(list, out[j].id)

\* C7: sorted_metadata is a stable, case-insensitive sort by the tuple of
\* the lower-cased strings of the requested attributes, a missing attribute
\* counting as the empty string, and sorting its result again changes
\* nothing.
C7_StableSort ==
    md_call.op = "sorted_metadata" =>
        /\ IsStableSort(md_result, input_metadata, SortNames(md_call.sort))
        /\ sorted_metadata(md_result, md_call.sort) = md_result

\* a sort by var that moved records: "B" and "b" have equal keys and kept
\* their order behind "a", though "B" < "a" < "b" as they are written
C7_Witness ==
    /\ md_call.op = "sorted_metadata"
    /\ md_call.sort = SortStr("var")
    /\ Len(input_metadata) = 3
    /\ GetOr(input_metadata[1].attrs, "var", Missing) = Str(<<66>>)
    /\ GetOr(input_metadata[2].attrs, "var", Missing) = Str(<<98>>)
    /\ GetOr(input_metadata[3].attrs, "var", Missing) = Str(<<97>>)
    /\ <<md_result[1].id, md_result[2].id, md_result[3].id>> = <<3, 1, 2>>

\* the key a group is sorted by: the lower-cased str, '' for None
GroupSortKey(key) == IF key = None THEN << >> ELSE Lower(str(key))

\* C8: sorted_group_metadata returns the same groups with their keys in the
\* order of their lower-cased strings, None counting as the empty string;
\* with sort True every list of members is as it was, otherwise it is the
\* list sorted as sorted_metadata sorts it.
C8_SortedGroups ==
    md_call.op = "sorted_group_metadata" =>
        /\ Len(md_result) = Len(md_call.groups)
        /\ Keys(md_result) = Keys(md_call.groups)
        /\ \A g, h \in 1..Len(md_result) : g < h =>
              ~StrLess(GroupSortKey(md_result[h].key),
                       GroupSortKey(md_result[g].key))
        /\ \A g \in 1..Len(md_result) :
              LET before == Get(md_call.groups, md_result[g].key)
              IN  IF md_call.sort = SortBool(TRUE)
                  THEN md_result[g].value = before
                  ELSE IsStableSort(md_result[g].value, before,
                                    SortNames(md_call.sort))

\* groups by exp, sorted with sort True: the group of None came last and is
\* now first, before "a", and its two members kept their order though
\* their var would sort them the other way
C8_Witness ==
    /\ md_call.op = "sorted_group_metadata"
    /\ md_call.sort = SortBool(TRUE)
    /\ Len(md_call.groups) = 2
    /\ md_call.groups[2].key = None
    /\ md_result[1].key = None
    /\ Len(md_result[1].value) = 2
    /\ TupleLess(SortKey(md_result[1].value[2].attrs, <<"var">>),
                 SortKey(md_result[1].value[1].attrs, <<"var">>))

\* C9: without a sort request (a sort argument that is not truthy) the
\* groups of group_metadata are in the order in which their keys first
\* occur in the input, a record without the attribute counting for the key
\* None, and the members of each group are in the order of the input.
C9_InsertionOrder ==
    (md_call.op = "group_metadata" /\ ~Truthy(md_call.sort)) =>
        /\ \A g \in 1..Len(md_result) :
              /\ md_result[g].value # << >>
              /\ \A i, j \in 1..Len(md_result[g].value) : i < j =>
                    md_result[g].value[i].id < md_result[g].value[j].id
              /\ \A i \in 1..Len(md_result[g].value) :
                    LET m == md_result[g].value[i].attrs
                    IN  md_result[g].key =
                           IF md_call.attribute \in Keys(m)
                           THEN Get(m, md_call.attribute) ELSE None
        /\ \A g, h \in 1..Len(md_result) : g < h =>
              md_result[g].value[1].id < md_result[h].value[1].id

\* an unsorted grouping by var whose keys are "b", None, "a" in the order
\* of the input, which is not the sorted order
C9_Witness ==
    /\ md_call.op = "group_metadata"
    /\ md_call.sort = SortNone
    /\ md_call.attribute = "var"
    /\ Len(md_result) = 3
    /\ md_result[1].key = Str(<<98>>)
    /\ md_result[2].key = None
    /\ md_result[3].key = Str(<<97>>)

(***************************************************************************)
(* The loaders: properties (checked under SpecLoad).                       *)
(***************************************************************************)
\* the variable is one the observation loader of the diagnostic supports
IsSupported ==
    \/ ld_diag = "alb" /\ ld_var = "alb"
    \/ ld_diag = "lc"
         /\ ld_var \in {"baresoilFrac", "grassNcropFrac", "shrubNtreeFrac"}

\* C11: with a variable that is not supported, _load_observation_data of
\* either class ends in the assertion failure and _ref_data is never set.
C11_UnsupportedVariableAsserts ==
    ~IsSupported =>
        /\ ref_data = Unset
        /\ ld_last.op = "_load_observation_data" =>
              ld_last.error = "AssertionError" /\ ld_last.loaded = Unset

\* the land cover loader was called for "alb": it aggregated the
\* observation file, then failed the assertion
C11_Witness ==
    /\ ld_last.op = "_load_observation_data"
    /\ ld_diag = "lc"
    /\ ld_var = "alb"
    /\ ld_last.error = "AssertionError"
    /\ ld_last.steps # << >>
    /\ ref_data = Unset

\* the aggregated copy of the file the last call of a loader looked at
CopyOfLast ==
    [dir |-> IF ld_diag = "alb" THEN "AUX_Files_alb_QA4ECV"
                                ELSE "AUX_Files_lc_ESACCI",
     name |-> ld_last.file.name \o <<"T63built.nc">>]

\* C12: a file of 96 x 192, 6 x 12 or 18 x 36 is loaded from its own path
\* and nothing is aggregated; any other file is loaded from its aggregated
\* copy in the AUX_Files directory, and the aggregation, the copy and the
\* removal of the temporary file are run exactly when that copy did not
\* exist, so that no file is aggregated twice.
C12_ResolutionMatching ==
    /\ ld_last.op # "none" =>
          IF ld_last.dims \in {<<96, 192>>, <<6, 12>>, <<18, 36>>}
          THEN /\ ld_last.steps = << >>
               /\ ld_last.error = "none" => ld_last.loaded.path = ld_last.file
          ELSE /\ ld_last.error = "none" => ld_last.loaded.path = CopyOfLast
               /\ CopyOfLast \in ld_copies
               /\ ld_last.steps =
                     IF ld_last.copy_existed THEN << >>
                     ELSE <<"_aggregate_resolution", "mkdir", "cp", "remove">>
    /\ \A i, j \in 1..Len(ld_aggregated) :
          ld_aggregated[i] = ld_aggregated[j] => i = j

\* the model file of 180 x 360 was loaded twice: the first load aggregated
\* it, the second found the copy and loaded it without aggregating
C12_Witness ==
    /\ ld_calls = 2
    /\ ld_last.op = "_load_model_data"
    /\ ld_last.dims = <<180, 360>>
    /\ ld_last.copy_existed
    /\ ld_last.steps = << >>
    /\ ld_aggregated = <<ModFile>>
    /\ mod_data.path = CopyOfLast

====
